---- MODULE Spec2Model ----
(***************************************************************************)
(* Model of io_sdnf.py: ExportSDNF.execute collects plates and linear      *)
(* elements from the scene objects with faces_from_mesh, then write_sdnf   *)
(* writes Packet 00, Packet 10 and Packet 20.                              *)
(*                                                                         *)
(* Floating-point quantities (coordinates, thickness, offset) are held as  *)
(* integers counting millionths, the resolution of the "%f" conversion.    *)
(* Matrix entries and scale factors are plain integers.  Sequences are     *)
(* 1-based here where the Python lists are 0-based.                        *)
(***************************************************************************)
EXTENDS Integers, Sequences, FiniteSets, TLC

VARIABLES
    scene,        \* the host's input: objects, operator properties, unit settings
    pc,           \* position in execute / write_sdnf
    data_seq,     \* execute: the objects iterated over
    global_scale, \* execute: resolved scale factor
    ob_i,         \* execute: number of objects of data_seq already processed
    dat,          \* execute: result of the latest faces_from_mesh call
    polygons,     \* execute / write_sdnf: collected plate records
    edges,        \* execute / write_sdnf: collected linear records
    out,          \* the file: one entry per fw() call, in call order
    edge_index,   \* write_sdnf: next Packet 10 member id
    face_index,   \* write_sdnf: next Packet 20 member id
    e_k,          \* write_sdnf: number of edges already written
    f_k,          \* write_sdnf: number of polygons already written
    bulk          \* numbering-only run: sizes of the two collections

vars == <<scene, pc, data_seq, global_scale, ob_i, dat, polygons, edges, out,
          edge_index, face_index, e_k, f_k, bulk>>

-----------------------------------------------------------------------------
(* Bounds and program constants *)

MaxObjs == 2

Micro == 1000000

EdgeBase == 100001

FaceBase == 200001

DefaultThickness == 8000

DefaultOffset == 0

OffsetLimit == 990000

-----------------------------------------------------------------------------
(* Vertex / transform primitives (mathutils.Matrix, Vector) *)

Dot3(a, b) == a[1] * b[1] + a[2] * b[2] + a[3] * b[3]

Col(m, j) == <<m[1][j], m[2][j], m[3][j]>>

\* Matrix.Scale(factor, 4): uniform scale, no translation
MatrixScale(factor) ==
    [m |-> <<<<factor, 0, 0>>, <<0, factor, 0>>, <<0, 0, factor>>>>,
     t |-> <<0, 0, 0>>]

\* a @ b for affine 4x4 matrices held as linear part m and translation t
MatMul(a, b) ==
    [m |-> [r \in 1..3 |-> [c \in 1..3 |-> Dot3(a.m[r], Col(b.m, c))]],
     t |-> [r \in 1..3 |-> Dot3(a.m[r], b.t) + a.t[r]]]

\* mat @ v for a point v
MatApply(mat, v) == [r \in 1..3 |-> Dot3(mat.m[r], v) + mat.t[r]]

Det3(m) ==
      m[1][1] * (m[2][2] * m[3][3] - m[2][3] * m[3][2])
    - m[1][2] * (m[2][1] * m[3][3] - m[2][3] * m[3][1])
    + m[1][3] * (m[2][1] * m[3][2] - m[2][2] * m[3][1])

\* Matrix.is_negative: the determinant of the linear part is negative
is_negative(mat) == Det3(mat.m) < 0

Reverse(s) == [j \in 1..Len(s) |-> s[Len(s) + 1 - j]]

\* Mesh.transform(mat): every vertex coordinate is replaced by mat @ co
mesh_transform(mesh, mat) ==
    [mesh EXCEPT !.vertices = [v \in 1..Len(mesh.vertices) |->
                                   MatApply(mat, mesh.vertices[v])]]

\* Mesh.flip_normals(): the winding of every polygon is inverted; the
\* polygon keeps its start vertex and the rest of its loop is reversed.
\* Edges are not touched.
flip_polygon(p) == IF Len(p) = 0 THEN p ELSE <<p[1]>> \o Reverse(Tail(p))

mesh_flip_normals(mesh) ==
    [mesh EXCEPT !.polygons = [f \in 1..Len(mesh.polygons) |->
                                   flip_polygon(mesh.polygons[f])]]

-----------------------------------------------------------------------------
(* faces_from_mesh *)

EmptyResult == [polygons |-> <<>>, edges |-> <<>>]

Coords(vertices, indices) == [j \in 1..Len(indices) |-> vertices[indices[j]]]

\* faulty variant: the edges are harvested whether or not there are faces
extract_mesh_always_edges(ob, global_matrix) ==
    LET mat   == MatMul(global_matrix, ob.matrix_world)
        m1    == mesh_transform(ob.mesh, mat)
        mesh  == IF is_negative(mat) THEN mesh_flip_normals(m1) ELSE m1
        polys == [f \in 1..Len(mesh.polygons) |->
                      Coords(mesh.vertices, mesh.polygons[f])]
        edgs  == [e \in 1..Len(mesh.edges) |->
                      Coords(mesh.vertices, mesh.edges[e])]
    IN  [polygons |-> polys, edges |-> edgs]

\* faulty variant: the winding is not flipped under a mirroring transform
extract_mesh_no_flip(ob, global_matrix) ==
    LET mat   == MatMul(global_matrix, ob.matrix_world)
        mesh  == mesh_transform(ob.mesh, mat)
        polys == [f \in 1..Len(mesh.polygons) |->
                      Coords(mesh.vertices, mesh.polygons[f])]
        edgs  == IF polys = <<>>
                 THEN [e \in 1..Len(mesh.edges) |->
                           Coords(mesh.vertices, mesh.edges[e])]
                 ELSE <<>>
    IN  [polygons |-> polys, edges |-> edgs]

\* faulty variant: the last edge of the mesh is left out
extract_mesh_drop_last_edge(ob, global_matrix) ==
    LET mat   == MatMul(global_matrix, ob.matrix_world)
        m1    == mesh_transform(ob.mesh, mat)
        mesh  == IF is_negative(mat) THEN mesh_flip_normals(m1) ELSE m1
        polys == [f \in 1..Len(mesh.polygons) |->
                      Coords(mesh.vertices, mesh.polygons[f])]
        edgs  == IF polys = <<>>
                 THEN [e \in 1..(Len(mesh.edges) - 1) |->
                           Coords(mesh.vertices, mesh.edges[e])]
                 ELSE <<>>
    IN  [polygons |-> polys, edges |-> edgs]

\* lines 262-281, for an object whose to_mesh() returned a mesh
extract_mesh(ob, global_matrix) ==
    LET mat   == MatMul(global_matrix, ob.matrix_world)
        m1    == mesh_transform(ob.mesh, mat)
        mesh  == IF is_negative(mat) THEN mesh_flip_normals(m1) ELSE m1
        polys == [f \in 1..Len(mesh.polygons) |->
                      Coords(mesh.vertices, mesh.polygons[f])]
        edgs  == IF polys = <<>>
                 THEN [e \in 1..Len(mesh.edges) |->
                           Coords(mesh.vertices, mesh.edges[e])]
                 ELSE <<>>
    IN  [polygons |-> polys, edges |-> edgs]

\* ob.to_mesh is the outcome of Object.to_mesh(): "mesh", "None" (no mesh
\* returned) or "RuntimeError" (the conversion raised)
faces_from_mesh(ob, global_matrix) ==
    IF ob.to_mesh = "RuntimeError" THEN EmptyResult
    ELSE IF ob.to_mesh = "None" THEN EmptyResult
    ELSE extract_mesh(ob, global_matrix)

-----------------------------------------------------------------------------
(* Text conversions *)

Pad6(n) ==
    IF n < 10 THEN "00000" \o ToString(n)
    ELSE IF n < 100 THEN "0000" \o ToString(n)
    ELSE IF n < 1000 THEN "000" \o ToString(n)
    ELSE IF n < 10000 THEN "00" \o ToString(n)
    ELSE IF n < 100000 THEN "0" \o ToString(n)
    ELSE ToString(n)

\* "%f" % x for x held in millionths: sign, integer part, six decimals
fmt_f(x) ==
    LET a == IF x < 0 THEN 0 - x ELSE x
    IN  (IF x < 0 THEN "-" ELSE "") \o ToString(a \div Micro) \o "." \o Pad6(a % Micro)

\* "%f %f %f" % vert[:]
fmt_vert(vert) == fmt_f(vert[1]) \o " " \o fmt_f(vert[2]) \o " " \o fmt_f(vert[3])

Line(tag, text) == [tag |-> tag, text |-> text]

-----------------------------------------------------------------------------
(* The host's input *)

P(x, y, z) == <<x * Micro, y * Micro, z * Micro>>

Identity == MatrixScale(1)

MirrorX == [m |-> <<<<-1, 0, 0>>, <<0, 1, 0>>, <<0, 0, 1>>>>, t |-> <<0, 0, 0>>]

HalfTurn == [m |-> <<<<-1, 0, 0>>, <<0, -1, 0>>, <<0, 0, 1>>>>, t |-> <<0, 0, 0>>]

QuarterTurnMoved == [m |-> <<<<0, -1, 0>>, <<1, 0, 0>>, <<0, 0, 1>>>>, t |-> P(1, 2, 3)]

Matrices == {Identity, MirrorX, HalfTurn, QuarterTurnMoved}

\* one triangle, with the three edges that bound it
TriMesh ==
    [vertices |-> <<P(0, 0, 0), P(1, 0, 0), P(0, 1, 0)>>,
     polygons |-> <<<<1, 2, 3>>>>,
     edges    |-> <<<<1, 2>>, <<2, 3>>, <<3, 1>>>>]

\* a quad and a triangle sharing an edge
QuadTriMesh ==
    [vertices |-> <<P(0, 0, 0), P(2, 0, 0), P(2, 2, 0), P(0, 2, 0), P(1, 1, 3)>>,
     polygons |-> <<<<1, 2, 3, 4>>, <<4, 3, 5>>>>,
     edges    |-> <<<<1, 2>>, <<2, 3>>, <<3, 4>>, <<4, 1>>, <<3, 5>>, <<5, 4>>>>]

\* no faces: a vertical edge, an edge with equal X only, a zero-length edge
WireMesh ==
    [vertices |-> <<P(0, 0, 0), P(0, 0, 5), P(0, 3, 1), P(0, 0, 5)>>,
     polygons |-> <<>>,
     edges    |-> <<<<1, 2>>, <<1, 3>>, <<2, 4>>>>]

\* no faces: one edge along X
BeamMesh ==
    [vertices |-> <<P(0, 0, 0), P(5, 0, 0)>>,
     polygons |-> <<>>,
     edges    |-> <<<<1, 2>>>>]

EmptyMesh == [vertices |-> <<>>, polygons |-> <<>>, edges |-> <<>>]

\* an invalid mesh: a polygon of two vertices
TwoGonMesh ==
    [vertices |-> <<P(0, 0, 0), P(1, 0, 0)>>,
     polygons |-> <<<<1, 2>>>>,
     edges    |-> <<<<1, 2>>>>]

Solidify(thickness, offset) ==
    [name |-> "Solidify", thickness |-> thickness, offset |-> offset]

ModStacks ==
    {<<Solidify(10000, Micro)>>,
     <<Solidify(10000, 0 - Micro)>>,
     <<Solidify(12500, 500000)>>,
     <<Solidify(10000, OffsetLimit)>>,
     <<Solidify(10000, 0 - OffsetLimit)>>,
     <<[name |-> "Bevel"], Solidify(20000, OffsetLimit + 1)>>,
     <<Solidify(10000, 0 - OffsetLimit - 1), [name |-> "Bevel"]>>,
     <<[name |-> "Solidify.001", thickness |-> 30000, offset |-> Micro]>>}

Body(mesh, matrix_world, modifiers, to_mesh) ==
    [mesh |-> mesh, matrix_world |-> matrix_world, modifiers |-> modifiers,
     to_mesh |-> to_mesh]

Bodies ==
         {Body(m, w, <<>>, "mesh") : m \in {QuadTriMesh, WireMesh}, w \in Matrices}
    \cup {Body(TriMesh, Identity, s, "mesh") : s \in ModStacks \cup {<<>>}}
    \cup {Body(BeamMesh, w, <<>>, "mesh") : w \in {Identity, QuarterTurnMoved}}
    \cup {Body(m, Identity, <<>>, "mesh") : m \in {EmptyMesh, TwoGonMesh}}
    \cup {Body(TriMesh, Identity, <<>>, r) : r \in {"None", "RuntimeError"}}

\* object names are unique in a scene
ObName(j) == "Ob" \o ToString(j)

Named(body, j) == [name |-> ObName(j)] @@ body

Scenes(n) == {[j \in 1..n |-> Named(b[j], j)] : b \in [1..n -> Bodies]}

\* operator properties and unit settings
Settings ==
    {[use_selection |-> FALSE, global_scale |-> 1, use_scene_unit |-> TRUE,
      system |-> "NONE", scale_length |-> 2],
     [use_selection |-> FALSE, global_scale |-> 1, use_scene_unit |-> TRUE,
      system |-> "METRIC", scale_length |-> 2],
     [use_selection |-> TRUE, global_scale |-> 3, use_scene_unit |-> FALSE,
      system |-> "METRIC", scale_length |-> 2]}

\* context.selected_objects: objects of the scene, each at most once.  With
\* Selection Only set: none, any single one, all in scene order, or all in
\* the opposite order; otherwise (the list is not read) all, in the opposite
\* order.
Selections(objs, use_selection) ==
    LET n == Len(objs)
    IN  IF use_selection
        THEN {<<>>, objs, Reverse(objs)} \cup {<<objs[j]>> : j \in 1..n}
        ELSE {Reverse(objs)}

-----------------------------------------------------------------------------
(* ExportSDNF.execute *)

\* lines 90-92
resolve_scale(st) ==
    IF st.system # "NONE" /\ st.use_scene_unit
    THEN st.global_scale * st.scale_length
    ELSE st.global_scale

\* lines 101-106: the last modifier named "Solidify" decides
RECURSIVE scan_modifiers(_, _)
scan_modifiers(modifiers, attrs) ==
    IF modifiers = <<>> THEN attrs
    ELSE LET item == Head(modifiers)
         IN  scan_modifiers(Tail(modifiers),
                 IF item.name = "Solidify"
                 THEN [thickness |-> item.thickness, offset |-> item.offset]
                 ELSE attrs)

member_attrs(ob) ==
    scan_modifiers(ob.modifiers,
                   [thickness |-> DefaultThickness, offset |-> DefaultOffset])

plate_records(ob, result) ==
    LET a == member_attrs(ob)
    IN  [j \in 1..Len(result.polygons) |->
            [polygon |-> result.polygons[j], thickness |-> a.thickness,
             offset |-> a.offset, name |-> ob.name]]

linear_records(ob, result) ==
    [j \in 1..Len(result.edges) |->
        [edge |-> result.edges[j], section |-> "UC152x152x23", name |-> ob.name]]

Init ==
    /\ \E n \in 0..MaxObjs : \E objs \in Scenes(n) : \E st \in Settings :
       \E sel \in Selections(objs, st.use_selection) :
           scene = [objects |-> objs, selected_objects |-> sel, settings |-> st]
    /\ pc = "execute"
    /\ data_seq = <<>>
    /\ global_scale = 0
    /\ ob_i = 0
    /\ dat = EmptyResult
    /\ polygons = <<>>
    /\ edges = <<>>
    /\ out = <<>>
    /\ edge_index = 0
    /\ face_index = 0
    /\ e_k = 0
    /\ f_k = 0
    /\ bulk = [edges |-> 0, polygons |-> 0]

\* lines 82-86
choose_objects(sc) ==
    IF sc.settings.use_selection THEN sc.selected_objects ELSE sc.objects

\* lines 68-98: choose the objects, resolve the scale, start the two lists
Begin ==
    /\ pc = "execute"
    /\ data_seq' = choose_objects(scene)
    /\ global_scale' = resolve_scale(scene.settings)
    /\ polygons' = <<>>
    /\ edges' = <<>>
    /\ ob_i' = 0
    /\ pc' = "collect"
    /\ UNCHANGED <<scene, dat, out, edge_index, face_index, e_k, f_k, bulk>>

\* faulty variant: a failed conversion ends the loop over the objects
Collect_stop_on_failure ==
    /\ pc = "collect"
    /\ ob_i < Len(data_seq)
    /\ LET ob     == data_seq[ob_i + 1]
           result == faces_from_mesh(ob, MatrixScale(global_scale))
       IN  /\ dat' = result
           /\ polygons' = polygons \o plate_records(ob, result)
           /\ edges' = edges \o linear_records(ob, result)
           /\ ob_i' = IF ob.to_mesh = "mesh" THEN ob_i + 1 ELSE Len(data_seq)
    /\ UNCHANGED <<scene, pc, data_seq, global_scale, out, edge_index, face_index,
                   e_k, f_k, bulk>>

\* lines 99-126: one iteration of "for ob in data_seq"
Collect ==
    /\ pc = "collect"
    /\ ob_i < Len(data_seq)
    /\ LET ob     == data_seq[ob_i + 1]
           result == faces_from_mesh(ob, MatrixScale(global_scale))
       IN  /\ dat' = result
           /\ polygons' = polygons \o plate_records(ob, result)
           /\ edges' = edges \o linear_records(ob, result)
    /\ ob_i' = ob_i + 1
    /\ UNCHANGED <<scene, pc, data_seq, global_scale, out, edge_index, face_index,
                   e_k, f_k, bulk>>

-----------------------------------------------------------------------------
(* write_sdnf *)

TitlePacket ==
    <<Line("title", "Packet 00\n"),
      Line("title", "\"\"\n"),
      Line("title", "\"My Engineering Company\"\n"),
      Line("title", "\"My Client\"\n"),
      Line("title", "\"My Structure\"\n"),
      Line("title", "\"10/02/13\" \"16:27:18\"\n"),
      Line("title", "1 \"io_sdnf.py\"\n"),
      Line("title", "\"My Design Code\"\n"),
      Line("title", "0\n")>>

\* lines 128-129 and 286-302: the loop over the objects is over, write_sdnf
\* is called, opens the file and writes the Title packet
WriteTitle ==
    /\ pc = "collect"
    /\ ob_i = Len(data_seq)
    /\ out' = out \o TitlePacket
    /\ pc' = "packet10"
    /\ UNCHANGED <<scene, data_seq, global_scale, ob_i, dat, polygons, edges,
                   edge_index, face_index, e_k, f_k, bulk>>

Packet10Header(n) ==
    <<Line("p10", "Packet 10\n"),
      Line("p10_count", "\"meters\" " \o ToString(n) \o "\n")>>

\* faulty variant: no Packet 10 header when there is no edge
WritePacket10_skip_empty ==
    /\ pc = "packet10"
    /\ out' = IF edges = <<>> THEN out ELSE out \o Packet10Header(Len(edges))
    /\ edge_index' = EdgeBase
    /\ e_k' = 0
    /\ pc' = "edges"
    /\ UNCHANGED <<scene, data_seq, global_scale, ob_i, dat, polygons, edges,
                   face_index, f_k, bulk>>

\* lines 306-312
WritePacket10 ==
    /\ pc = "packet10"
    /\ out' = out \o Packet10Header(Len(edges))
    /\ edge_index' = EdgeBase
    /\ e_k' = 0
    /\ pc' = "edges"
    /\ UNCHANGED <<scene, data_seq, global_scale, ob_i, dat, polygons, edges,
                   face_index, f_k, bulk>>

\* faulty variant: only X is compared
orientation_vector_x_only(edge) ==
    IF edge[1][1] = edge[2][1]
    THEN "1.000000 0.000000 0.000000 "
    ELSE "0.000000 0.000000 1.000000 "

\* lines 329-332
orientation_vector(edge) ==
    IF edge[1][1] = edge[2][1] /\ edge[1][2] = edge[2][2]
    THEN "1.000000 0.000000 0.000000 "
    ELSE "0.000000 0.000000 1.000000 "

\* faulty variant: every linear element is written with the first id
EdgeLines_reuse_id(item, index) ==
    LET edge == item.edge
    IN  <<Line("e_member", ToString(EdgeBase) \o " 5 0 0 \"beam\" \"\" 0\n"),
          Line("e_section", "\"" \o item.section \o "\" \"S355\" 0.000000 0 0\n"),
          Line("e_vector", orientation_vector(edge))>>
        \o [j \in 1..Len(edge) |-> Line("e_vert", fmt_vert(edge[j]) \o " ")]
        \o <<Line("e_cutback", "0.000000 0.000000\n"),
             Line("e_section_offsets", "0.000000 0.000000\n"),
             Line("e_offsets", "0.000000 0.000000 0.000000 0.000000 0.000000 0.000000\n"),
             Line("e_releases", "0 0 0 0 0 0 0 0 0 0 0 0\n")>>

\* lines 314-347: the fw() calls of one linear element
EdgeLines(item, index) ==
    LET edge == item.edge
    IN  <<Line("e_member", ToString(index) \o " 5 0 0 \"beam\" \"\" 0\n"),
          Line("e_section", "\"" \o item.section \o "\" \"S355\" 0.000000 0 0\n"),
          Line("e_vector", orientation_vector(edge))>>
        \o [j \in 1..Len(edge) |-> Line("e_vert", fmt_vert(edge[j]) \o " ")]
        \o <<Line("e_cutback", "0.000000 0.000000\n"),
             Line("e_section_offsets", "0.000000 0.000000\n"),
             Line("e_offsets", "0.000000 0.000000 0.000000 0.000000 0.000000 0.000000\n"),
             Line("e_releases", "0 0 0 0 0 0 0 0 0 0 0 0\n")>>

\* lines 313-347: one iteration of "for item in edges"
WriteEdge ==
    /\ pc = "edges"
    /\ e_k < Len(edges)
    /\ out' = out \o EdgeLines(edges[e_k + 1], edge_index)
    /\ edge_index' = edge_index + 1
    /\ e_k' = e_k + 1
    /\ UNCHANGED <<scene, pc, data_seq, global_scale, ob_i, dat, polygons, edges,
                   face_index, f_k, bulk>>

Packet20Header(n) ==
    <<Line("p20", "Packet 20\n"),
      Line("p20_count", "\"meters\" \"meters\" " \o ToString(n) \o "\n")>>

\* lines 351-357
WritePacket20 ==
    /\ pc = "edges"
    /\ e_k = Len(edges)
    /\ out' = out \o Packet20Header(Len(polygons))
    /\ face_index' = FaceBase
    /\ f_k' = 0
    /\ pc' = "polygons"
    /\ UNCHANGED <<scene, data_seq, global_scale, ob_i, dat, polygons, edges,
                   edge_index, e_k, bulk>>

\* faulty variant: the limits 0.99 and -0.99 count as fully offset
connect_point_inclusive(offset) ==
    IF offset >= OffsetLimit THEN -1
    ELSE IF offset <= 0 - OffsetLimit THEN 1
    ELSE 0

\* lines 366-370
connect_point(offset) ==
    IF offset > OffsetLimit THEN -1
    ELSE IF offset < 0 - OffsetLimit THEN 1
    ELSE 0

\* lines 359-379: the fw() calls of one plate
PlateLines(item, index) ==
    LET face == item.polygon
    IN  <<Line("f_member", ToString(index) \o " " \o ToString(connect_point(item.offset))
                              \o " 0 0 \"plate\"\n"),
          Line("f_head", "\"\" \"S355\" " \o fmt_f(item.thickness) \o " "
                              \o ToString(Len(face)) \o "\n")>>
        \o [j \in 1..Len(face) |-> Line("f_vert", fmt_vert(face[j]) \o "\n")]

\* lines 358-380: one iteration of "for item in polygons"
WritePolygon ==
    /\ pc = "polygons"
    /\ f_k < Len(polygons)
    /\ out' = out \o PlateLines(polygons[f_k + 1], face_index)
    /\ face_index' = face_index + 1
    /\ f_k' = f_k + 1
    /\ UNCHANGED <<scene, pc, data_seq, global_scale, ob_i, dat, polygons, edges,
                   edge_index, e_k, bulk>>

\* line 380 to the end of the with block, and line 131: the file is closed,
\* execute returns {"FINISHED"}
Finish ==
    /\ pc = "polygons"
    /\ f_k = Len(polygons)
    /\ pc' = "done"
    /\ UNCHANGED <<scene, data_seq, global_scale, ob_i, dat, polygons, edges, out,
                   edge_index, face_index, e_k, f_k, bulk>>

Next ==
    \/ Begin
    \/ Collect
    \/ WriteTitle
    \/ WritePacket10
    \/ WriteEdge
    \/ WritePacket20
    \/ WritePolygon
    \/ Finish

Spec == Init /\ [][Next]_vars

-----------------------------------------------------------------------------
(* Numbering-only run of write_sdnf: the two loops reduced to their         *)
(* counters, for collections too large to hold element by element.  The     *)
(* member ids depend on nothing but the number of elements.                 *)

BulkEdgeCounts == {0, 3, FaceBase - EdgeBase, FaceBase - EdgeBase + 1}

BulkPolygonCounts == {0, 1, 2}

IdsInit ==
    /\ \E n \in BulkEdgeCounts : \E m \in BulkPolygonCounts :
           bulk = [edges |-> n, polygons |-> m]
    /\ scene = [objects |-> <<>>, selected_objects |-> <<>>,
                settings |-> CHOOSE st \in Settings : ~st.use_selection /\ st.system = "NONE"]
    /\ pc = "packet10"
    /\ data_seq = <<>>
    /\ global_scale = 1
    /\ ob_i = 0
    /\ dat = EmptyResult
    /\ polygons = <<>>
    /\ edges = <<>>
    /\ out = <<>>
    /\ edge_index = 0
    /\ face_index = 0
    /\ e_k = 0
    /\ f_k = 0

\* line 312
IdsPacket10 ==
    /\ pc = "packet10"
    /\ edge_index' = EdgeBase
    /\ e_k' = 0
    /\ pc' = "edges"
    /\ UNCHANGED <<scene, data_seq, global_scale, ob_i, dat, polygons, edges, out,
                   face_index, f_k, bulk>>

\* lines 313-321: one iteration of "for item in edges"
IdsEdge ==
    /\ pc = "edges"
    /\ e_k < bulk.edges
    /\ edge_index' = edge_index + 1
    /\ e_k' = e_k + 1
    /\ UNCHANGED <<scene, pc, data_seq, global_scale, ob_i, dat, polygons, edges, out,
                   face_index, f_k, bulk>>

\* line 357
IdsPacket20 ==
    /\ pc = "edges"
    /\ e_k = bulk.edges
    /\ face_index' = FaceBase
    /\ f_k' = 0
    /\ pc' = "polygons"
    /\ UNCHANGED <<scene, data_seq, global_scale, ob_i, dat, polygons, edges, out,
                   edge_index, e_k, bulk>>

\* lines 358-380: one iteration of "for item in polygons"
IdsPolygon ==
    /\ pc = "polygons"
    /\ f_k < bulk.polygons
    /\ face_index' = face_index + 1
    /\ f_k' = f_k + 1
    /\ UNCHANGED <<scene, pc, data_seq, global_scale, ob_i, dat, polygons, edges, out,
                   edge_index, e_k, bulk>>

IdsFinish ==
    /\ pc = "polygons"
    /\ f_k = bulk.polygons
    /\ pc' = "done"
    /\ UNCHANGED <<scene, data_seq, global_scale, ob_i, dat, polygons, edges, out,
                   edge_index, face_index, e_k, f_k, bulk>>

IdsNext ==
    \/ IdsPacket10
    \/ IdsEdge
    \/ IdsPacket20
    \/ IdsPolygon
    \/ IdsFinish

SpecIds == IdsInit /\ [][IdsNext]_vars

-----------------------------------------------------------------------------
(* Vocabulary of the properties *)

Lines(tag) == SelectSeq(out, LAMBDA r : r.tag = tag)

\* positions in out of the entries carrying tag, in order
Positions(tag) == SelectSeq([p \in 1..Len(out) |-> p], LAMBDA p : out[p].tag = tag)

\* position in out of the k-th entry carrying tag
PosOf(tag, k) == Positions(tag)[k]

PointSet(s) == {s[j] : j \in 1..Len(s)}

IsRotation(a, b) ==
    /\ Len(a) = Len(b)
    /\ \/ Len(a) = 0
       \/ \E sh \in 0..(Len(a) - 1) :
              \A j \in 1..Len(a) : a[j] = b[((j - 1 + sh) % Len(a)) + 1]

\* the object the latest faces_from_mesh call was made on
Extracted == pc = "collect" /\ ob_i >= 1

CurOb == data_seq[ob_i]

\* the combined transform of an object, global matrix @ world matrix
Combined(ob) == MatMul(MatrixScale(resolve_scale(scene.settings)), ob.matrix_world)

\* a source face or edge of an object, vertex by vertex, after the transform
SourceLoop(ob, indices) ==
    [j \in 1..Len(indices) |-> MatApply(Combined(ob), ob.mesh.vertices[indices[j]])]

HasMesh(ob) == ob.to_mesh = "mesh"

\* the objects the export is made of, in their order: the scene's objects,
\* or the selected ones when Selection Only is set
Exported == IF scene.settings.use_selection THEN scene.selected_objects ELSE scene.objects

\* (object, element) pairs in the order of the exported objects and, within one object, mesh
\* order: the faces of the objects with faces, the edges of those without
RECURSIVE PolygonOwners(_)
PolygonOwners(n) ==
    IF n = 0 THEN <<>>
    ELSE PolygonOwners(n - 1) \o
         (IF HasMesh(Exported[n])
          THEN [j \in 1..Len(Exported[n].mesh.polygons) |-> <<n, j>>]
          ELSE <<>>)

RECURSIVE EdgeOwners(_)
EdgeOwners(n) ==
    IF n = 0 THEN <<>>
    ELSE EdgeOwners(n - 1) \o
         (IF HasMesh(Exported[n]) /\ Exported[n].mesh.polygons = <<>>
          THEN [j \in 1..Len(Exported[n].mesh.edges) |-> <<n, j>>]
          ELSE <<>>)

\* the loop over the objects is over: write_sdnf starts, or has returned
Collected == pc \in {"packet10", "done"}

-----------------------------------------------------------------------------
(* C1 *)

\* C1: the k-th edge written carries member id 100000+k and the k-th polygon
\* 200000+k, one id per member with none reused or skipped; the k-th member
\* written is the k-th collected element, and the collected elements stand in
\* the order of the exported objects (scene.objects, or selected_objects under
\* Selection Only) and, within one object, in mesh order.
C1_MemberNumbering ==
    LET em == Lines("e_member")
        fm == Lines("f_member")
    IN  /\ Len(em) = e_k
        /\ Len(fm) = f_k
        /\ \A k \in 1..Len(em) :
               /\ em[k].text = ToString(100000 + k) \o " 5 0 0 \"beam\" \"\" 0\n"
               /\ out[PosOf("e_member", k) + 3].text = fmt_vert(edges[k].edge[1]) \o " "
               /\ out[PosOf("e_member", k) + 4].text = fmt_vert(edges[k].edge[2]) \o " "
        /\ \A k \in 1..Len(fm) :
               /\ \E c \in {"-1", "0", "1"} :
                      fm[k].text = ToString(200000 + k) \o " " \o c \o " 0 0 \"plate\"\n"
               /\ out[PosOf("f_member", k) + 2].text
                      = fmt_vert(polygons[k].polygon[1]) \o "\n"
        /\ pc = "done" => e_k = Len(edges) /\ f_k = Len(polygons)
        /\ Collected =>
               LET eo == EdgeOwners(Len(Exported))
                   po == PolygonOwners(Len(Exported))
               IN  /\ Len(edges) = Len(eo)
                   /\ Len(polygons) = Len(po)
                   /\ \A k \in 1..Len(eo) :
                          LET ob == Exported[eo[k][1]]
                          IN  /\ edges[k].name = ob.name
                              /\ PointSet(edges[k].edge)
                                     = PointSet(SourceLoop(ob, ob.mesh.edges[eo[k][2]]))
                   /\ \A k \in 1..Len(po) :
                          LET ob == Exported[po[k][1]]
                          IN  /\ polygons[k].name = ob.name
                              /\ PointSet(polygons[k].polygon)
                                     = PointSet(SourceLoop(ob, ob.mesh.polygons[po[k][2]]))

\* an export of two selected objects, listed against the scene's order, that
\* wrote 3 edges and then 2 polygons
C1_Witness ==
    /\ pc = "done"
    /\ scene.settings.use_selection
    /\ Len(scene.objects) = 2
    /\ scene.selected_objects = Reverse(scene.objects)
    /\ Len(edges) = 3
    /\ Len(polygons) = 2
    /\ edges[1].name = scene.objects[2].name
    /\ polygons[1].name = scene.objects[1].name
    /\ Lines("e_member")[3].text = "100003 5 0 0 \"beam\" \"\" 0\n"
    /\ Lines("f_member")[2].text = "200002 0 0 0 \"plate\"\n"

-----------------------------------------------------------------------------
(* C2 *)

\* C2: the result of faces_from_mesh never has both lists non-empty; for a
\* mesh with at least one face the edge list is empty; so no object owns both
\* a plate record and a linear record.
C2_FaceEdgeExclusive ==
    /\ Extracted =>
           /\ ~(dat.polygons # <<>> /\ dat.edges # <<>>)
           /\ (HasMesh(CurOb) /\ Len(CurOb.mesh.polygons) >= 1) => dat.edges = <<>>
    /\ \A p \in 1..Len(polygons) : \A e \in 1..Len(edges) :
           polygons[p].name # edges[e].name

\* the extraction was made on a mesh that has a face and edges
C2_Witness ==
    /\ Extracted
    /\ HasMesh(CurOb)
    /\ Len(CurOb.mesh.polygons) >= 1
    /\ Len(CurOb.mesh.edges) >= 1
    /\ dat.polygons # <<>>
    /\ dat.edges = <<>>

-----------------------------------------------------------------------------
(* C3 *)

\* C3: under an orientation-reversing combined transform every returned
\* polygon is the source face's loop reversed (the same cyclic loop run
\* backwards, whatever vertex it starts at); otherwise the source order is
\* kept; edges keep their endpoint order in both cases.
C3_WindingFlip ==
    (Extracted /\ HasMesh(CurOb)) =>
        LET ob == CurOb
        IN  /\ Len(dat.polygons) = Len(ob.mesh.polygons)
            /\ \A f \in 1..Len(dat.polygons) :
                   LET src == SourceLoop(ob, ob.mesh.polygons[f])
                   IN  IF Det3(Combined(ob).m) < 0
                       THEN IsRotation(dat.polygons[f], Reverse(src))
                       ELSE dat.polygons[f] = src
            /\ \A e \in 1..Len(dat.edges) :
                   dat.edges[e] = SourceLoop(ob, ob.mesh.edges[e])

\* a mirrored object with a quad: the loop came out reversed, not as it was
C3_Witness ==
    /\ Extracted
    /\ HasMesh(CurOb)
    /\ Det3(Combined(CurOb).m) < 0
    /\ \E f \in 1..Len(dat.polygons) :
           /\ Len(dat.polygons[f]) = 4
           /\ dat.polygons[f] # SourceLoop(CurOb, CurOb.mesh.polygons[f])
           /\ ~IsRotation(dat.polygons[f], SourceLoop(CurOb, CurOb.mesh.polygons[f]))

-----------------------------------------------------------------------------
(* C4 *)

PacketMarks ==
    SelectSeq(out, LAMBDA r : r.text \in {"Packet 00\n", "Packet 10\n", "Packet 20\n"})

ThreePackets == <<"Packet 00\n", "Packet 10\n", "Packet 20\n">>

\* C4: the packet markers written so far are always a prefix of Packet 00,
\* Packet 10, Packet 20; a completed call has written all three, each once;
\* the line after "Packet 10" carries the edge count and the line after
\* "Packet 20" the polygon count, also when the count is 0.
C4_PacketOrder ==
    LET pm == PacketMarks
    IN  /\ Len(pm) <= 3
        /\ \A j \in 1..Len(pm) : pm[j].text = ThreePackets[j]
        /\ pc = "done" =>
               /\ Len(pm) = 3
               /\ out[1].text = "Packet 00\n"
               /\ out[PosOf("p10", 1) + 1].text
                      = "\"meters\" " \o ToString(Len(edges)) \o "\n"
               /\ out[PosOf("p20", 1) + 1].text
                      = "\"meters\" \"meters\" " \o ToString(Len(polygons)) \o "\n"
               /\ PosOf("p10", 1) = 10
               /\ PosOf("p10", 1) < PosOf("p20", 1)

\* a completed export with no edge and no polygon
C4_Witness ==
    /\ pc = "done"
    /\ edges = <<>>
    /\ polygons = <<>>
    /\ Len(data_seq) >= 1
    /\ out[11].text = "\"meters\" 0\n"
    /\ out[13].text = "\"meters\" \"meters\" 0\n"

-----------------------------------------------------------------------------
(* C5 *)

HasSolidify(ob) == \E j \in 1..Len(ob.modifiers) : ob.modifiers[j].name = "Solidify"

\* the object of the scene that carries a name
ObjectNamed(name) ==
    scene.objects[CHOOSE j \in 1..Len(scene.objects) : scene.objects[j].name = name]

\* C5: the member line of every written polygon carries connect point -1 when
\* the polygon's offset is above 0.99, 1 when it is below -0.99 and 0
\* otherwise, 0.99 and -0.99 themselves included; a polygon of an object
\* without a Solidify modifier has offset 0.0 and connect point 0.
C5_ConnectPoint ==
    LET fm == Lines("f_member")
    IN  \A k \in 1..Len(fm) :
            LET off  == polygons[k].offset
                code == IF off > 990000 THEN "-1"
                        ELSE IF off < -990000 THEN "1"
                        ELSE "0"
            IN  /\ fm[k].text = ToString(200000 + k) \o " " \o code \o " 0 0 \"plate\"\n"
                /\ ~HasSolidify(ObjectNamed(polygons[k].name)) =>
                       /\ off = 0
                       /\ fm[k].text = ToString(200000 + k) \o " 0 0 0 \"plate\"\n"

\* plates at offset exactly 0.99 and just below -0.99 have been written
C5_Witness ==
    /\ pc = "done"
    /\ Len(polygons) = 2
    /\ polygons[1].offset = 990000
    /\ polygons[2].offset = -990001
    /\ Lines("f_member")[1].text = "200001 0 0 0 \"plate\"\n"
    /\ Lines("f_member")[2].text = "200002 1 0 0 \"plate\"\n"

-----------------------------------------------------------------------------
(* C6 *)

NamedCount(records, name) ==
    Cardinality({k \in 1..Len(records) : records[k].name = name})

IsExported(ob) == \E j \in 1..Len(Exported) : Exported[j].name = ob.name

\* C6: faces_from_mesh on an object whose conversion raised or returned no
\* mesh yields the empty result; the export still completes with its three
\* packets, and every exported object that has a mesh, before or after a
\* failing one, has contributed all its faces, or all its edges when it has
\* no face; a failing object, or one left out by Selection Only, contributes
\* nothing.
C6_FailedMeshSkipped ==
    /\ (Extracted /\ ~HasMesh(CurOb)) => dat = [polygons |-> <<>>, edges |-> <<>>]
    /\ Collected =>
           \A j \in 1..Len(scene.objects) :
               LET ob == scene.objects[j]
               IN  IF IsExported(ob) /\ HasMesh(ob)
                   THEN /\ NamedCount(polygons, ob.name) = Len(ob.mesh.polygons)
                        /\ NamedCount(edges, ob.name)
                               = IF Len(ob.mesh.polygons) = 0 THEN Len(ob.mesh.edges) ELSE 0
                   ELSE /\ NamedCount(polygons, ob.name) = 0
                        /\ NamedCount(edges, ob.name) = 0
    /\ pc = "done" =>
           /\ SubSeq(out, 1, Len(TitlePacket)) = TitlePacket
           /\ Len(Lines("p10")) = 1
           /\ Len(Lines("p20")) = 1
           /\ Len(Lines("e_member")) = Len(edges)
           /\ Len(Lines("f_member")) = Len(polygons)

\* a completed export whose first object failed to convert and whose second
\* object's faces were written
C6_Witness ==
    /\ pc = "done"
    /\ Len(Exported) = 2
    /\ Exported[1].to_mesh = "RuntimeError"
    /\ HasMesh(Exported[2])
    /\ Len(polygons) = 2
    /\ Len(Lines("f_member")) = 2

-----------------------------------------------------------------------------
(* C7 *)

\* C7: no plate record of the output has fewer than three vertex lines, and
\* every linear record has exactly two endpoints.
C7_NoMalformedRecord ==
    \A p \in 1..Len(out) :
        /\ out[p].tag = "f_head" =>
               /\ p + 3 <= Len(out)
               /\ \A q \in (p + 1)..(p + 3) : out[q].tag = "f_vert"
        /\ out[p].tag = "e_vector" =>
               /\ p + 3 <= Len(out)
               /\ out[p + 1].tag = "e_vert"
               /\ out[p + 2].tag = "e_vert"
               /\ out[p + 3].tag = "e_cutback"

-----------------------------------------------------------------------------
(* C8 *)

\* C8: no member id written for a linear element is also written for a plate.
\* The ids written so far are EdgeBase..edge_index-1 and FaceBase..face_index-1.
C8_IdRangesDisjoint ==
    \A id \in FaceBase..(face_index - 1) : id \notin EdgeBase..(edge_index - 1)

-----------------------------------------------------------------------------
(* C9 *)

\* C9: for a mesh without faces and with at least one edge, faces_from_mesh
\* returns no polygon and one 2-point entry per source edge, in source order.
C9_FacelessMeshEdges ==
    (Extracted /\ HasMesh(CurOb) /\ Len(CurOb.mesh.polygons) = 0
               /\ Len(CurOb.mesh.edges) >= 1) =>
        /\ dat.polygons = <<>>
        /\ Len(dat.edges) = Len(CurOb.mesh.edges)
        /\ \A e \in 1..Len(CurOb.mesh.edges) :
               LET ends == CurOb.mesh.edges[e]
               IN  /\ Len(dat.edges[e]) = 2
                   /\ dat.edges[e][1] = MatApply(Combined(CurOb), CurOb.mesh.vertices[ends[1]])
                   /\ dat.edges[e][2] = MatApply(Combined(CurOb), CurOb.mesh.vertices[ends[2]])

\* the extraction was made on a faceless mesh of three edges
C9_Witness ==
    /\ Extracted
    /\ HasMesh(CurOb)
    /\ CurOb.mesh.polygons = <<>>
    /\ Len(CurOb.mesh.edges) = 3
    /\ Len(dat.edges) = 3
    /\ dat.polygons = <<>>

-----------------------------------------------------------------------------
(* C10 *)

\* C10: the third line of every written edge starts with 1.000000 0.000000
\* 0.000000 exactly when its two endpoints agree in X and in Y, and with
\* 0.000000 0.000000 1.000000 otherwise; endpoint 0 and then endpoint 1 follow.
C10_OrientationVector ==
    \A k \in 1..Len(Lines("e_vector")) :
        LET p == PosOf("e_vector", k)
            a == edges[k].edge[1]
            b == edges[k].edge[2]
        IN  /\ out[p].text = IF a[1] = b[1] /\ a[2] = b[2]
                             THEN "1.000000 0.000000 0.000000 "
                             ELSE "0.000000 0.000000 1.000000 "
            /\ out[p + 1].text = fmt_vert(a) \o " "
            /\ out[p + 2].text = fmt_vert(b) \o " "
            /\ out[p + 3].text = "0.000000 0.000000\n"

\* the edges (0,0,0)-(0,0,5), vertical, and (0,0,5)-(0,0,5), of no length,
\* and (0,0,0)-(0,3,1), equal in X only, have been written
C10_Witness ==
    /\ \E p \in 1..Len(out) :
           /\ out[p].text = "1.000000 0.000000 0.000000 "
           /\ p + 2 <= Len(out)
           /\ out[p + 1].text = "0.000000 0.000000 0.000000 "
           /\ out[p + 2].text = "0.000000 0.000000 5.000000 "
    /\ \E p \in 1..Len(out) :
           /\ out[p].text = "1.000000 0.000000 0.000000 "
           /\ p + 2 <= Len(out)
           /\ out[p + 1].text = "0.000000 0.000000 5.000000 "
           /\ out[p + 2].text = "0.000000 0.000000 5.000000 "
    /\ \E p \in 1..Len(out) :
           /\ out[p].text = "0.000000 0.000000 1.000000 "
           /\ p + 2 <= Len(out)
           /\ out[p + 1].text = "0.000000 0.000000 0.000000 "
           /\ out[p + 2].text = "0.000000 3.000000 1.000000 "

====
